---- MODULE Spec2Model ----
(***************************************************************************)
(* A model of flare's two kernels: the expression evaluator (src/expr.rs)  *)
(* and the pull-based RDD pipeline (src/api.rs).                           *)
(***************************************************************************)
EXTENDS Integers, Sequences, FiniteSets, TLC

VARIABLES
    \* ---- expression evaluator (src/expr.rs) ----
    expr,      \* the tree handed to Expr::eval
    row,       \* the row handed to Expr::eval
    res,       \* what the call produced: a Datum, or a panic
    epc,       \* "idle" | "ready" (inputs chosen) | "done" (eval ran)
    \* ---- pipeline (src/api.rs) ----
    lines,     \* the supplier: what io::Lines yields for the file, in order
    pos,       \* how many supplier items io::Lines has consumed
    mapfns,    \* functions attached with map(), innermost first
    out,       \* what the consumer's next() calls returned, in order
    ncalls,    \* ncalls[1]: next() calls on the source stage,
               \* ncalls[i+1]: next() calls on the i-th map stage
    napplied,  \* napplied[i]: applications of the i-th map stage's mapfn
    pulls,     \* number of self.iter.next() calls made by the source stage
    calls,     \* number of next() calls the consumer made
    lateMap,   \* TRUE once map() was attached after a next() call
    fault,     \* message of the panic that ended the run, "" if none
    ppc        \* "idle" | "start" | "open" | "panicked"

evars == <<expr, row, res, epc>>
pvars == <<lines, pos, mapfns, out, ncalls, napplied, pulls, calls,
           lateMap, fault, ppc>>
vars == <<expr, row, res, epc,
          lines, pos, mapfns, out, ncalls, napplied, pulls, calls,
          lateMap, fault, ppc>>

(***************************************************************************)
(* Bounds                                                                  *)
(***************************************************************************)
\* width in bits of the integer carried by Datum::INT (scaled down)
IntBits == 7
\* largest column id used in the sampled trees
MaxCid == 2
\* longest supplier (number of lines of the text file)
MaxLines == 3
\* deepest chain of map stages
MaxMaps == 2
\* most next() calls a consumer makes
MaxCalls == 5

RECURSIVE Pow2(_)
Pow2(n) == IF n = 0 THEN 1 ELSE 2 * Pow2(n - 1)

Modulus == Pow2(IntBits)
MinInt == -Pow2(IntBits - 1)
MaxInt == Pow2(IntBits - 1) - 1
Ints == MinInt..MaxInt

(***************************************************************************)
(* Datum and Row (crate::row)                                              *)
(***************************************************************************)
INT(n) == [tag |-> "INT", i |-> n]
BOOL(v) == [tag |-> "BOOL", b |-> v]

\* a panic unwinding out of eval: the call returns no Datum
Panic(m) == [tag |-> "PANIC", msg |-> m]
IsPanic(d) == d.tag = "PANIC"
IsDatum(d) == d.tag \in {"INT", "BOOL"}

arity(r) == Len(r)

\* Row::get_column, columns addressed from zero
get_column(r, index) ==
    IF index >= arity(r) THEN Panic("index out of bounds") ELSE r[index + 1]

(***************************************************************************)
(* Expr                                                                    *)
(***************************************************************************)
ArithOp == {"Add", "Sub", "Mul", "Div"}
RelOp == {"Eq", "Ne", "Gt", "Ge", "Lt", "Le"}

CID(c) == [kind |-> "CID", cid |-> c]
Literal(d) == [kind |-> "Literal", lit |-> d]
ArithExpr(l, op, r) == [kind |-> "ArithExpr", lhs |-> l, op |-> op, rhs |-> r]
RelExpr(l, op, r) == [kind |-> "RelExpr", lhs |-> l, op |-> op, rhs |-> r]

\* impl ops::Add / Sub / Mul / Div for Expr
add_sub(self, other) == ArithExpr(self, "Sub", other)
add(self, other) == ArithExpr(self, "Add", other)
sub(self, other) == ArithExpr(self, "Sub", other)
mul(self, other) == ArithExpr(self, "Mul", other)
div(self, other) == ArithExpr(self, "Div", other)

(***************************************************************************)
(* Machine integer arithmetic of the `+ - * /` operators                   *)
(***************************************************************************)
InRange(m) == MinInt <= m /\ m <= MaxInt
Wrap(m) == ((m - MinInt) % Modulus) + MinInt
Abs(n) == IF n < 0 THEN -n ELSE n

\* the quotient rounded toward zero
TruncDiv(a, b) ==
    LET q == Abs(a) \div Abs(b)
    IN IF (a < 0) # (b < 0) THEN -q ELSE q

\* an Add/Sub/Mul result m: overflow panics when overflow checks are on,
\* and wraps otherwise
Overflowing(m, oc, what) ==
    IF InRange(m) THEN INT(m)
    ELSE IF oc THEN Panic(what)
    ELSE INT(Wrap(m))

\* rounds the quotient toward minus infinity
ArithApply_floor(i1, op, i2, oc) ==
    CASE op = "Add" -> Overflowing(i1 + i2, oc, "attempt to add with overflow")
      [] op = "Sub" -> Overflowing(i1 - i2, oc, "attempt to subtract with overflow")
      [] op = "Mul" -> Overflowing(i1 * i2, oc, "attempt to multiply with overflow")
      [] op = "Div" ->
            IF i2 = 0 THEN Panic("attempt to divide by zero")
            ELSE IF i1 = MinInt /\ i2 = -1
                 THEN Panic("attempt to divide with overflow")
            ELSE INT(i1 \div i2)

\* the four INT arms of the ArithExpr match, and Datum::INT(res)
ArithApply(i1, op, i2, oc) ==
    CASE op = "Add" -> Overflowing(i1 + i2, oc, "attempt to add with overflow")
      [] op = "Sub" -> Overflowing(i1 - i2, oc, "attempt to subtract with overflow")
      [] op = "Mul" -> Overflowing(i1 * i2, oc, "attempt to multiply with overflow")
      [] op = "Div" ->
            IF i2 = 0 THEN Panic("attempt to divide by zero")
            ELSE IF i1 = MinInt /\ i2 = -1
                 THEN Panic("attempt to divide with overflow")
            ELSE INT(TruncDiv(i1, i2))

\* Ge tests strictly
RelApply_strict(i1, op, i2) ==
    CASE op = "Eq" -> BOOL(i1 = i2)
      [] op = "Ne" -> BOOL(i1 # i2)
      [] op = "Le" -> BOOL(i1 <= i2)
      [] op = "Lt" -> BOOL(i1 < i2)
      [] op = "Ge" -> BOOL(i1 > i2)
      [] op = "Gt" -> BOOL(i1 > i2)

\* the six INT arms of the RelExpr match, and Datum::BOOL(res)
RelApply(i1, op, i2) ==
    CASE op = "Eq" -> BOOL(i1 = i2)
      [] op = "Ne" -> BOOL(i1 # i2)
      [] op = "Le" -> BOOL(i1 <= i2)
      [] op = "Lt" -> BOOL(i1 < i2)
      [] op = "Ge" -> BOOL(i1 >= i2)
      [] op = "Gt" -> BOOL(i1 > i2)

\* match (b1, op, b2) of the ArithExpr arm, with its catch-all panic
ArithMatch(b1, op, b2, oc) ==
    IF b1.tag = "INT" /\ b2.tag = "INT"
    THEN ArithApply(b1.i, op, b2.i, oc)
    ELSE Panic("Internal error: Operands of ArithOp not resolved yet.")

\* answers false for operands that are not both INT
RelMatch_false(b1, op, b2) ==
    IF b1.tag = "INT" /\ b2.tag = "INT"
    THEN RelApply(b1.i, op, b2.i)
    ELSE BOOL(FALSE)

\* match (b1, op, b2) of the RelExpr arm, with its catch-all panic
RelMatch(b1, op, b2) ==
    IF b1.tag = "INT" /\ b2.tag = "INT"
    THEN RelApply(b1.i, op, b2.i)
    ELSE Panic("Internal error: Operands of RelOp not resolved yet.")

\* reads the last column when the index is past the end
EvalCID_clamp(cid, r) ==
    IF arity(r) = 0 THEN get_column(r, cid)
    ELSE get_column(r, IF cid >= arity(r) THEN arity(r) - 1 ELSE cid)

\* CID(cid) => row.get_column(*cid).clone()
EvalCID(cid, r) == get_column(r, cid)

\* Literal(lit) => lit.clone()
EvalLiteral(lit) == lit

\* Expr::eval; a panic in a sub-evaluation unwinds through the callers,
\* b1 being evaluated before b2
RECURSIVE eval(_, _, _)
eval(self, r, oc) ==
    CASE self.kind = "CID" -> EvalCID(self.cid, r)
      [] self.kind = "Literal" -> EvalLiteral(self.lit)
      [] self.kind = "ArithExpr" ->
            LET b1 == eval(self.lhs, r, oc)
            IN IF IsPanic(b1) THEN b1
               ELSE LET b2 == eval(self.rhs, r, oc)
                    IN IF IsPanic(b2) THEN b2
                       ELSE ArithMatch(b1, self.op, b2, oc)
      [] self.kind = "RelExpr" ->
            LET b1 == eval(self.lhs, r, oc)
            IN IF IsPanic(b1) THEN b1
               ELSE LET b2 == eval(self.rhs, r, oc)
                    IN IF IsPanic(b2) THEN b2
                       ELSE RelMatch(b1, self.op, b2)

(***************************************************************************)
(* Inputs of the evaluator                                                 *)
(***************************************************************************)
\* the tree of tests::test: CID(0) + CID(1) compared Gt with Literal(INT(30))
Thirty == 30
TestExpr == RelExpr(add(CID(0), CID(1)), "Gt", Literal(INT(Thirty)))

\* small trees mixing columns, integer and boolean literals, two levels deep
Leaves ==
    {CID(c) : c \in 0..MaxCid} \cup {Literal(INT(n)) : n \in {0, 2}}
    \cup {Literal(BOOL(TRUE))}
Binary(L, R) ==
    {ArithExpr(l, op, r) : l \in L, op \in ArithOp, r \in R}
    \cup {RelExpr(l, op, r) : l \in L, op \in RelOp, r \in R}
Depth1 == Binary(Leaves, Leaves)
NestOps == {"Add", "Div", "Gt"}
Nested == {e \in Depth1 : e.op \in NestOps}
SampleExprs ==
    Leaves \cup Depth1 \cup Binary(Nested, Leaves) \cup Binary(Leaves, Nested)

SampleRows ==
    {<<>>, <<INT(2)>>, <<BOOL(FALSE), INT(0)>>, <<INT(MaxInt), INT(2)>>}

(***************************************************************************)
(* The evaluator as a state machine: one call of Expr::eval                *)
(***************************************************************************)
NoRes == [tag |-> "NONE"]

PipeIdle ==
    /\ lines = <<>> /\ pos = 0 /\ mapfns = <<>> /\ out = <<>>
    /\ ncalls = <<0>> /\ napplied = <<>> /\ pulls = 0 /\ calls = 0
    /\ lateMap = FALSE /\ fault = "" /\ ppc = "idle"

EvalReady == res = NoRes /\ epc = "ready" /\ PipeIdle

\* ArithExpr(Literal(INT(a)), op, Literal(INT(b))) for all a, b, op
InitArith ==
    /\ \E a \in Ints, b \in Ints, op \in ArithOp :
          expr = ArithExpr(Literal(INT(a)), op, Literal(INT(b)))
    /\ row \in {<<>>}
    /\ EvalReady

\* RelExpr(Literal(INT(a)), op, Literal(INT(b))) for all a, b, op
InitRel ==
    /\ \E a \in Ints, b \in Ints, op \in RelOp :
          expr = RelExpr(Literal(INT(a)), op, Literal(INT(b)))
    /\ row \in {<<>>, <<BOOL(TRUE), INT(2)>>}
    /\ EvalReady

\* the tree of tests::test over every row of two integers
InitProj ==
    /\ expr = TestExpr
    /\ \E x \in Ints, y \in Ints : row = <<INT(x), INT(y)>>
    /\ EvalReady

\* the sampled trees over the sampled rows
InitTree ==
    /\ expr \in SampleExprs
    /\ row \in SampleRows
    /\ EvalReady

InitEval == InitArith \/ InitRel \/ InitProj \/ InitTree

\* let d = e.eval(&row); whether an overflowing + - * panics or wraps
\* depends on the build profile
Eval ==
    /\ epc = "ready"
    /\ \E oc \in BOOLEAN : res' = eval(expr, row, oc)
    /\ epc' = "done"
    /\ UNCHANGED <<expr, row>>
    /\ UNCHANGED pvars

NextEval == Eval

SpecEval == InitEval /\ [][NextEval]_vars

TypeOKEval ==
    /\ epc \in {"ready", "done"}
    /\ epc = "done" => res.tag \in {"INT", "BOOL", "PANIC"}

(***************************************************************************)
(* Properties of the evaluator                                             *)
(***************************************************************************)
\* expr is a binary node of the given kind over two integer literals
IsLitBin(kind) ==
    /\ expr.kind = kind
    /\ expr.lhs.kind = "Literal" /\ expr.lhs.lit.tag = "INT"
    /\ expr.rhs.kind = "Literal" /\ expr.rhs.lit.tag = "INT"
LitA == expr.lhs.lit.i
LitB == expr.rhs.lit.i

\* q is a/b rounded toward zero: the remainder is smaller than the divisor
\* and has the sign of the dividend
IsTruncQuot(q, a, b) ==
    LET r == a - q * b
    IN Abs(r) < Abs(b) /\ (r = 0 \/ ((r < 0) <=> (a < 0)))

DivDone == epc = "done" /\ IsLitBin("ArithExpr") /\ expr.op = "Div"

\* C5 as stated: every division by a non-zero literal returns INT(q), q the
\* quotient truncated toward zero, and division by zero fails fatally
C5_DivAllNonZero ==
    DivDone =>
        IF LitB = 0 THEN IsPanic(res)
        ELSE res.tag = "INT" /\ IsTruncQuot(res.i, LitA, LitB)

\* C5 amended: division by a non-zero literal returns INT(q), q the quotient
\* truncated toward zero, unless the quotient is not representable (the
\* smallest integer divided by -1); that case and division by zero fail
\* fatally
C5_Div ==
    DivDone =>
        IF LitB = 0 \/ (LitA = MinInt /\ LitB = -1) THEN IsPanic(res)
        ELSE res.tag = "INT" /\ IsTruncQuot(res.i, LitA, LitB)

C5_Witness ==
    DivDone /\ LitA = -7 /\ LitB = 2 /\ res = INT(-3)

Compare(op, a, b) ==
    CASE op = "Eq" -> a = b
      [] op = "Ne" -> a # b
      [] op = "Gt" -> a > b
      [] op = "Ge" -> a >= b
      [] op = "Lt" -> a < b
      [] op = "Le" -> a <= b

\* C6: a relational node over two integer literals returns the BOOL Datum
\* of the comparison, whatever the row
C6_Relational ==
    (epc = "done" /\ IsLitBin("RelExpr")) =>
        res = BOOL(Compare(expr.op, LitA, LitB))

C6_Witness ==
    /\ epc = "done" /\ IsLitBin("RelExpr")
    /\ expr.op = "Ge" /\ LitA = LitB /\ row # <<>> /\ res = BOOL(TRUE)

\* the operand e evaluates to a Datum that is not an integer
NonIntOperand(e) ==
    \E oc \in BOOLEAN :
        LET d == eval(e, row, oc) IN IsDatum(d) /\ d.tag # "INT"

IsBinary == expr.kind \in {"ArithExpr", "RelExpr"}

\* C7: an arithmetic or relational node with an operand that evaluates to a
\* non-integer Datum fails fatally
C7_Unresolved ==
    (epc = "done" /\ IsBinary
        /\ (NonIntOperand(expr.lhs) \/ NonIntOperand(expr.rhs)))
    => IsPanic(res)

C7_Witness ==
    /\ epc = "done" /\ expr.kind = "RelExpr"
    /\ expr.lhs.kind = "RelExpr" /\ NonIntOperand(expr.lhs)
    /\ expr.rhs = Literal(INT(0))
    /\ res = Panic("Internal error: Operands of RelOp not resolved yet.")

\* the tree e holds a column reference past the end of the row r
RECURSIVE HasOOB(_, _)
HasOOB(e, r) ==
    CASE e.kind = "CID" -> e.cid >= arity(r)
      [] e.kind = "Literal" -> FALSE
      [] OTHER -> HasOOB(e.lhs, r) \/ HasOOB(e.rhs, r)

\* C8: a tree holding CID(i) with i >= arity fails fatally; CID(i) with
\* i < arity returns the row's i-th value; eval leaves the row as it was
C8_Columns ==
    /\ [](epc = "done" =>
            /\ HasOOB(expr, row) => IsPanic(res)
            /\ (expr.kind = "CID" /\ expr.cid < arity(row))
                   => res = row[expr.cid + 1])
    /\ [][epc = "ready" => row' = row]_vars

C8_Witness ==
    /\ epc = "done" /\ expr.kind = "ArithExpr"
    /\ expr.lhs = CID(0) /\ expr.rhs = CID(MaxCid) /\ arity(row) = 2
    /\ res = Panic("index out of bounds")

ProjDone ==
    /\ epc = "done" /\ expr = TestExpr /\ arity(row) = 2
    /\ row[1].tag = "INT" /\ row[2].tag = "INT"

\* C9 as stated: for every row [INT(x), INT(y)] the tree of tests::test
\* returns BOOL(x + y > 30)
C9_ProjAllRows ==
    ProjDone => res = BOOL(row[1].i + row[2].i > Thirty)

\* C9 amended: for every row [INT(x), INT(y)] whose sum x + y lies in the
\* signed range of the integer width, the tree returns BOOL(x + y > 30)
C9_Proj ==
    (ProjDone /\ InRange(row[1].i + row[2].i))
        => res = BOOL(row[1].i + row[2].i > Thirty)

C9_Witness ==
    ProjDone /\ row = <<INT(20), INT(15)>> /\ res = BOOL(TRUE)

MathResult(op, a, b) ==
    CASE op = "Add" -> a + b
      [] op = "Sub" -> a - b
      [] op = "Mul" -> a * b

\* C10: Add, Sub and Mul over integer literals always return the INT Datum
\* of the mathematical result reduced modulo 2^w into the signed range
C10_TwosComplement ==
    (epc = "done" /\ IsLitBin("ArithExpr") /\ expr.op \in {"Add", "Sub", "Mul"})
        => res = INT(Wrap(MathResult(expr.op, LitA, LitB)))

(***************************************************************************)
(* The pipeline (src/api.rs)                                               *)
(***************************************************************************)
None == [some |-> FALSE]
Some(v) == [some |-> TRUE, v |-> v]

\* what io::Lines yields for one line of the file: the line, a failed read
\* that consumed the line's bytes (a line that is not UTF-8), or a failed
\* read that consumed nothing and fails again on every later call
Ok(s) == [kind |-> "Ok", s |-> s]
ErrSkip == [kind |-> "ErrSkip", s |-> ""]
ErrStuck == [kind |-> "ErrStuck", s |-> ""]

Records == {"ab", "", "xyz"}
Items == {Ok(s) : s \in Records} \cup {ErrSkip, ErrStuck}

\* the files: every sequence of at most MaxLines items
RECURSIVE SeqsUpTo(_, _)
SeqsUpTo(S, n) ==
    IF n = 0 THEN {<<>>}
    ELSE LET T == SeqsUpTo(S, n - 1)
         IN T \cup {Append(t, x) : t \in {u \in T : Len(u) = n - 1}, x \in S}

Suppliers == SeqsUpTo(Items, MaxLines)

\* self.iter.next() of io::Lines: <<the Option<io::Result<String>>, new pos>>
LinesNext(ls, p) ==
    IF p >= Len(ls) THEN <<None, p>>
    ELSE LET it == ls[p + 1]
         IN CASE it.kind = "Ok" -> <<Some(it), p + 1>>
              [] it.kind = "ErrSkip" -> <<Some(it), p + 1>>
              [] it.kind = "ErrStuck" -> <<Some(it), p>>

\* Result::ok
ok(e) == IF e.kind = "Ok" THEN Some(e.s) ELSE None

\* the mapping functions a consumer attaches, and their argument types
MapFns == {"len", "inc", "dbl"}
ArgType(f) == IF f = "len" THEN "String" ELSE "usize"
Apply(f, v) ==
    CASE f = "len" -> Len(v)
      [] f = "inc" -> v + 1
      [] f = "dbl" -> 2 * v

\* Self::Item of the outermost stage
ItemType == IF mapfns = <<>> THEN "String" ELSE "usize"

InitPipe ==
    /\ lines \in Suppliers
    /\ pos = 0 /\ mapfns = <<>> /\ out = <<>>
    /\ ncalls = <<0>> /\ napplied = <<>> /\ pulls = 0 /\ calls = 0
    /\ lateMap = FALSE /\ fault = ""
    /\ ppc = "start"
    /\ expr = CID(0) /\ row = <<>> /\ res = NoRes /\ epc = "idle"

Frozen == UNCHANGED <<lines, pos, mapfns, out, ncalls, napplied, pulls,
                      calls, lateMap>>

\* FlareContext::textFile -> TextFileRDD::new: read_lines(&filename).unwrap()
\* panics when File::open fails
textFile ==
    /\ ppc = "start"
    /\ \/ ppc' = "open" /\ fault' = fault
       \/ ppc' = "panicked"
          /\ fault' = "called Result::unwrap() on an Err value"
    /\ Frozen
    /\ UNCHANGED evars

\* attaches a stage and pulls its first record from the upstream at once
map_prefetch ==
    /\ ppc = "open"
    /\ Len(mapfns) < MaxMaps
    /\ \E mapfn \in MapFns :
          /\ ArgType(mapfn) = ItemType
          /\ mapfns' = Append(mapfns, mapfn)
    /\ ncalls' = Append([ncalls EXCEPT ![Len(ncalls)] = @ + 1], 0)
    /\ napplied' = Append(napplied, 0)
    /\ lateMap' = (lateMap \/ calls > 0)
    /\ UNCHANGED <<lines, pos, out, pulls, calls, fault, ppc>>
    /\ UNCHANGED evars

\* RDDBase::map: MapRDD { mapfn, source: self }
map ==
    /\ ppc = "open"
    /\ Len(mapfns) < MaxMaps
    /\ \E mapfn \in MapFns :
          /\ ArgType(mapfn) = ItemType
          /\ mapfns' = Append(mapfns, mapfn)
    /\ ncalls' = Append(ncalls, 0)
    /\ napplied' = Append(napplied, 0)
    /\ lateMap' = (lateMap \/ calls > 0)
    /\ UNCHANGED <<lines, pos, out, pulls, calls, fault, ppc>>
    /\ UNCHANGED evars

\* rdd.next() with the source stage outermost: TextFileRDD::next
TextFileRDD_next ==
    /\ ppc = "open"
    /\ mapfns = <<>>
    /\ calls < MaxCalls
    /\ LET r == LinesNext(lines, pos)
       IN /\ out' = Append(out, IF r[1] = None THEN None ELSE ok(r[1].v))
          /\ pos' = r[2]
    /\ pulls' = pulls + 1
    /\ calls' = calls + 1
    /\ ncalls' = [ncalls EXCEPT ![1] = @ + 1]
    /\ UNCHANGED <<lines, mapfns, napplied, lateMap, fault, ppc>>
    /\ UNCHANGED evars

\* rdd.next() with a map stage outermost: MapRDD::next is unimplemented!()
MapRDD_next ==
    /\ ppc = "open"
    /\ mapfns # <<>>
    /\ calls < MaxCalls
    /\ calls' = calls + 1
    /\ ncalls' = [ncalls EXCEPT ![Len(ncalls)] = @ + 1]
    /\ ppc' = "panicked"
    /\ fault' = "not implemented"
    /\ UNCHANGED <<lines, pos, mapfns, out, napplied, pulls, lateMap>>
    /\ UNCHANGED evars

NextPipe == textFile \/ map \/ TextFileRDD_next \/ MapRDD_next

SpecPipe == InitPipe /\ [][NextPipe]_vars

TypeOKPipe ==
    /\ ppc \in {"start", "open", "panicked"}
    /\ pos \in 0..Len(lines)
    /\ Len(ncalls) = Len(mapfns) + 1
    /\ Len(napplied) = Len(mapfns)
    /\ Len(out) <= calls

(***************************************************************************)
(* Properties of the pipeline                                              *)
(***************************************************************************)
IsPrefix(s, t) == Len(s) <= Len(t) /\ \A i \in 1..Len(s) : s[i] = t[i]

\* C1: once next() has returned end-of-stream, every later next() on that
\* stage returns end-of-stream too (out holds the source stage's returns;
\* a map stage's next() never returns)
C1_IdempotentExhaustion ==
    \A i \in 1..Len(out) : \A j \in 1..Len(out) :
        (i < j /\ out[i] = None) => out[j] = None

AllOk(ls) == \A i \in 1..Len(ls) : ls[i].kind = "Ok"

RECURSIVE ApplyAll(_, _)
ApplyAll(fs, v) ==
    IF fs = <<>> THEN v ELSE ApplyAll(Tail(fs), Apply(Head(fs), v))

\* C2: over a source of n readable records, with the k map stages attached
\* before the first pull, the pulls on the outermost stage fail at no point
\* and return the k functions applied in attachment order to the 1st, 2nd,
\* ..., n-th record, then end-of-stream
C2_MapComposition ==
    (AllOk(lines) /\ ~lateMap) =>
        /\ fault # "not implemented"
        /\ \A i \in 1..Len(out) :
              out[i] = IF i <= Len(lines)
                       THEN Some(ApplyAll(mapfns, lines[i].s))
                       ELSE None

\* what a step may do to the counters: a next() on map stage i makes at most
\* one next() on stage i-1 and applies its mapfn at most once; a next() on
\* the source stage pulls the supplier at most once; map() makes no next()
StepNoReadAhead ==
    /\ \A i \in 2..Len(ncalls) :
          /\ ncalls'[i - 1] - ncalls[i - 1] <= ncalls'[i] - ncalls[i]
          /\ napplied'[i - 1] - napplied[i - 1] <= ncalls'[i] - ncalls[i]
          /\ ncalls'[i] - ncalls[i] <= 1
    /\ pulls' - pulls <= ncalls'[1] - ncalls[1]
    /\ ncalls'[1] - ncalls[1] <= 1
    /\ Len(mapfns') > Len(mapfns) =>
          /\ \A i \in 1..Len(ncalls) : ncalls'[i] = ncalls[i]
          /\ pulls' = pulls

\* C3: no read-ahead, step by step, and hence the source stage is pulled at
\* most as often as the consumer pulled the outermost stage
C3_NoReadAhead ==
    /\ [](ncalls[1] <= calls /\ pulls <= calls)
    /\ [][StepNoReadAhead]_vars

C3_Witness ==
    /\ ppc = "panicked" /\ fault = "not implemented"
    /\ Len(mapfns) = 2 /\ ncalls = <<1, 0, 1>> /\ pulls = 1 /\ calls = 2

\* the values returned so far, without the end-of-stream signals
RECURSIVE Returned(_)
Returned(o) ==
    IF o = <<>> THEN <<>>
    ELSE IF Head(o).some THEN <<Head(o).v>> \o Returned(Tail(o))
    ELSE Returned(Tail(o))

\* the supplier's records up to the first failed read
RECURSIVE LeadingOk(_)
LeadingOk(ls) ==
    IF ls = <<>> \/ Head(ls).kind # "Ok" THEN <<>>
    ELSE <<Head(ls).s>> \o LeadingOk(Tail(ls))

\* C4: the records the source stage returned are a prefix of the supplier's
\* records, and none of them follows a failed read
C4_StopTheStream == IsPrefix(Returned(out), LeadingOk(lines))

====
